---- MODULE Spec2Model ----
(***************************************************************************)
(* EdgeSync: the encrypted-state repository (optimistic concurrency over  *)
(* the encrypted_states table).  Every SQL statement is one atomic step;  *)
(* an Upsert is two statements (SELECT, then INSERT or UPDATE) and other  *)
(* callers' statements interleave between them.  Further down, the Redis  *)
(* session repository (every Redis command is one atomic step), the       *)
(* AuthService over it, and the Redis presence repository.                *)
(***************************************************************************)
EXTENDS Integers, FiniteSets, Sequences, TLC

\* ---------------------------------------------------------------- bounds
MaxVersion == 2      \* largest expected version a caller presents
NRacers == 3         \* SpecRace: callers racing on one key
NCalls == 3          \* SpecSeq: calls made one after the other

Callers == {1, 2}    \* Spec: concurrent callers, each making call after call
Accounts == {"a1"}
KeysAsc == <<"k1", "k2">>    \* the keys in use, in the column's ascending order
Keys == {KeysAsc[n] : n \in DOMAIN KeysAsc}
\* what a caller writes: last-writing device, ciphertext blob, nonce
Payloads == {[device_id |-> "d1", state |-> "b1", nonce |-> "n1"],
             [device_id |-> "d2", state |-> "b2", nonce |-> "n2"]}
Versions == 0..MaxVersion

MaxRows == 3         \* SpecAccount: largest table GetByAccountID is run on
MaxLifetime == 2     \* longest time to expiry of a session given to Create
presenceTTL == 2     \* the heartbeat window of a presence key, in units of time
MaxNow == 4          \* SpecPresence: the clock stops here
MaxIds == 3          \* longest list of device ids given to GetBulkPresence

Owners == {"a1", "a2"}        \* the accounts that own rows and sessions
Clients == {1, 2, 3}          \* SpecSession: the concurrent callers
Listers == {1, 2}             \* the callers that also list and bulk-delete
SessionIDs == {"s1", "s2"}
Devices == {"d1"}
Lifetimes == 0..MaxLifetime   \* time.Until(session.ExpiresAt) when Create is called

\* -------------------------------------------------------------- constants
NULL == "NULL"       \* SQL NULL / Go nil pointer
NOW == "now"         \* the value of NOW(): timestamps are kept as set / not set
NilID == 0           \* uuid.Nil, the zero value of an id; row ids are 1, 2, ...

ErrNone == "nil"
ErrNotFound == "ErrNotFound"
ErrVersionConflict == "ErrVersionConflict"
ErrCheckExisting == "failed to check existing state"
ErrCreateUnique == "failed to create state: unique_violation"
ErrCreate == "failed to create state"
ErrUpdate == "failed to update state"
ErrDelete == "failed to delete state"
ErrGetSession == "failed to get session: ErrNotFound"
ErrGetSessionStore == "failed to get session: failed to get session"
ErrRemoveSession == "failed to remove session from account sessions"
ErrDeleteSession == "failed to delete session"
ErrAccountSessions == "failed to get account sessions"
ErrRemoveExpired == "failed to remove expired sessions"

VARIABLES
    rows,       \* table encrypted_states: row id -> row
    pc,         \* per caller: the statement it executes next
    op,         \* per caller: the repository method of the current / last call
    state,      \* per caller: the *models.EncryptedState given to Upsert (mutated in place)
    expected,   \* per caller: state.Version as it was passed to Upsert
    target,     \* per caller: Upsert's existing.ID, or the id given to Delete
    result,     \* per caller: the error returned by the last finished call
    listing,    \* the account and the rows of the last GetByAccountID
    sessionKeys,     \* Redis keys "session:{id}": id -> value and time to live
    accountSessions, \* Redis sets "account:{id}:sessions": account -> ids
    call,       \* per client of the session repository: the frame of its call
    issued,     \* the session ids uuid.New() has returned to Login so far
    tokens,     \* AuthService: session id -> the claims Login signs for it
    presence,   \* Redis keys "presence:{id}": device -> value and time to live
    now,        \* the clock SetPresence reads for LastSeen
    reply       \* the method, arguments and results of the last presence call

vars == <<rows, pc, op, state, expected, target, result, listing,
          sessionKeys, accountSessions, call, issued, tokens,
          presence, now, reply>>

\* the variables of the presence repository
presenceVars == <<presence, now, reply>>

\* what the encrypted-state repository never touches
sessionVars == <<sessionKeys, accountSessions, call, issued, tokens, presenceVars>>

\* what the session repository never touches
stateVars == <<rows, pc, op, state, expected, target, result, listing,
               tokens, presenceVars>>

\* ------------------------------------------------------------ the table
\* gen_random_uuid(): an id no row has (no statement removes a row)
NewId(tbl) == Len(tbl) + 1

\* WHERE account_id = a AND key = k AND deleted_at IS NULL
ActiveIds(tbl, a, k) ==
    {i \in DOMAIN tbl : tbl[i].account_id = a /\ tbl[i].key = k
                        /\ tbl[i].deleted_at = NULL}

\* UNIQUE(account_id, key): every row counts, soft-deleted or not
KeyIds(tbl, a, k) ==
    {i \in DOMAIN tbl : tbl[i].account_id = a /\ tbl[i].key = k}

NoState == [ID |-> NilID, AccountID |-> "a1", DeviceID |-> "d1", Key |-> "k1",
            State |-> "b1", Nonce |-> "n1", Version |-> 0,
            CreatedAt |-> NULL, UpdatedAt |-> NULL]

NoListing == [account |-> NULL, states |-> <<>>]

\* ------------------------------------------------ the session store (Redis)
NoExpiry == -1       \* the time to live of a key without expiry (TTL answers -1)

\* a key that does not exist: GET answers redis.Nil
NoSession == [ID |-> NULL, AccountID |-> NULL, DeviceID |-> NULL]
NoKey == [session |-> NoSession, ttl |-> NoExpiry]

\* a client that is not inside a call
Idle == [pc |-> "ready", op |-> "none", id |-> NULL, account |-> NULL,
         session |-> NoSession, todo |-> {}, sessions |-> {}, expired |-> {},
         stale |-> {}, creates |-> {}, snapshot |-> {}, failed |-> {},
         err |-> ErrNone]

\* ---------------------------------------------------------- AuthService
ErrInvalidToken == "invalid token"

\* no token: what a session id stands for before Login builds its claims
NoToken == [sub |-> NULL, device_id |-> NULL, jti |-> NULL, left |-> 0,
            holder |-> 0, signed |-> FALSE]

\* s.jwtExpiry, the configured lifetime of tokens and sessions
JwtExpiry == MaxLifetime

AuthInit == tokens = [id \in SessionIDs |-> NoToken]

\* ------------------------------------------- the presence store (Redis)
PresenceDevices == {"d1", "d2"}
Statuses == {"online", "away"}     \* the status of the *models.Presence given
StatusOffline == "offline"
ZeroTime == 0        \* time.Time{}; the clock starts after it

ErrUnmarshalPresence == "failed to unmarshal presence"

NoPresence == [AccountID |-> NULL, DeviceID |-> NULL, Status |-> NULL,
               LastSeen |-> ZeroTime]

\* what a key holds: nothing (GET answers redis.Nil), the JSON of a presence,
\* or a string that is not the JSON of a presence
NilValue == [kind |-> "nil", presence |-> NoPresence]
NotJSON == [kind |-> "text", presence |-> NoPresence]
NoPresenceKey == [value |-> NilValue, ttl |-> NoExpiry]

\* json.Marshal(presence)
Marshal(p) == [kind |-> "json", presence |-> p]

\* json.Unmarshal([]byte(data), &presence)
Unmarshal(v) ==
    IF v.kind = "json" THEN [err |-> ErrNone, presence |-> v.presence]
    ELSE [err |-> ErrUnmarshalPresence, presence |-> NoPresence]

\* &models.Presence{DeviceID: deviceID, Status: models.StatusOffline,
\*                  LastSeen: time.Time{}}
Offline(d) == [AccountID |-> NULL, DeviceID |-> d, Status |-> StatusOffline,
               LastSeen |-> ZeroTime]

NoPresences == [d \in {} |-> NoPresence]
NoReply == [op |-> "none", ids |-> <<>>, err |-> ErrNone,
            presences |-> NoPresences, before |-> NoPresenceKey]

PresenceInit ==
    /\ presence = [d \in PresenceDevices |-> NoPresenceKey]
    /\ now = 1
    /\ reply = NoReply

\* the empty Redis database, idle clients and no token
SessionInit ==
    /\ sessionKeys = [id \in SessionIDs |-> NoKey]
    /\ accountSessions = [a \in Owners |-> {}]
    /\ call = [c \in Clients |-> Idle]
    /\ issued = {}
    /\ AuthInit

\* the state after construction: the migrated, empty table and idle callers
InitFor(P) ==
    /\ rows = <<>>
    /\ pc = [p \in P |-> "ready"]
    /\ op = [p \in P |-> "none"]
    /\ state = [p \in P |-> NoState]
    /\ expected = [p \in P |-> 0]
    /\ target = [p \in P |-> NilID]
    /\ result = [p \in P |-> ErrNone]
    /\ listing = NoListing
    /\ SessionInit
    /\ PresenceInit

Init == InitFor(Callers)

\* ------------------------------------------------------- SQL statements
\* (mutant) GetByKey's SELECT without "AND key = $2"
GetByKeyAnyKey(tbl, a, k) ==
    IF {i \in DOMAIN tbl : tbl[i].account_id = a /\ tbl[i].deleted_at = NULL} = {}
    THEN NilID
    ELSE CHOOSE i \in DOMAIN tbl : tbl[i].account_id = a /\ tbl[i].deleted_at = NULL

\* GetByKey's SELECT: the id of the active row of (a, k), NilID for pgx.ErrNoRows
GetByKey(tbl, a, k) ==
    IF ActiveIds(tbl, a, k) = {} THEN NilID
    ELSE CHOOSE i \in ActiveIds(tbl, a, k) : TRUE

\* GetByID's SELECT: WHERE id = $1 AND deleted_at IS NULL
GetByID(tbl, id) ==
    IF id \in DOMAIN tbl /\ tbl[id].deleted_at = NULL THEN id ELSE NilID

\* key ASC: the comparison of two VARCHAR keys
KeyRank(k) == CHOOSE n \in DOMAIN KeysAsc : KeysAsc[n] = k
KeyLeq(x, y) == KeyRank(x) <= KeyRank(y)

\* GetByAccountID's SELECT: the active rows of the account, ORDER BY key ASC
RECURSIVE SortByKey(_, _)
SortByKey(tbl, ids) ==
    IF ids = {} THEN <<>>
    ELSE LET i == CHOOSE x \in ids : \A y \in ids : KeyLeq(tbl[x].key, tbl[y].key)
         IN <<tbl[i]>> \o SortByKey(tbl, ids \ {i})

\* (mutant) the SELECT without "AND deleted_at IS NULL"
GetByAccountIDWithDeleted(tbl, a) ==
    SortByKey(tbl, {i \in DOMAIN tbl : tbl[i].account_id = a})

GetByAccountID(tbl, a) ==
    SortByKey(tbl, {i \in DOMAIN tbl : tbl[i].account_id = a /\ tbl[i].deleted_at = NULL})

\* (mutant) the table without its UNIQUE(account_id, key) constraint
InsertUnconstrained(tbl, s) == TRUE

\* create's INSERT ... VALUES ($1, $2, $3, $4, $5, 1): rejected by UNIQUE(account_id, key)
InsertAllowed(tbl, s) == KeyIds(tbl, s.AccountID, s.Key) = {}

\* (mutant) the INSERT stores the candidate's version when it is not 0
InsertedRowKeepsVersion(tbl, s) ==
    [id |-> NewId(tbl), account_id |-> s.AccountID, device_id |-> s.DeviceID,
     key |-> s.Key, state |-> s.State, nonce |-> s.Nonce,
     version |-> IF s.Version = 0 THEN 1 ELSE s.Version,
     created_at |-> NOW, updated_at |-> NULL, deleted_at |-> NULL]

InsertedRow(tbl, s) ==
    [id |-> NewId(tbl), account_id |-> s.AccountID, device_id |-> s.DeviceID,
     key |-> s.Key, state |-> s.State, nonce |-> s.Nonce, version |-> 1,
     created_at |-> NOW, updated_at |-> NULL, deleted_at |-> NULL]

\* (mutant) the UPDATE without "AND deleted_at IS NULL"
UpdateMatchesDeleted(tbl, s, existingID) ==
    /\ existingID \in DOMAIN tbl
    /\ tbl[existingID].version = s.Version

\* (mutant) the UPDATE without "AND version = $5"
UpdateMatchesAnyVersion(tbl, s, existingID) ==
    /\ existingID \in DOMAIN tbl
    /\ tbl[existingID].deleted_at = NULL

\* update's UPDATE: WHERE id = $4 AND version = $5 AND deleted_at IS NULL
UpdateMatches(tbl, s, existingID) ==
    /\ existingID \in DOMAIN tbl
    /\ tbl[existingID].version = s.Version
    /\ tbl[existingID].deleted_at = NULL

\* (mutant) SET version = version + 2
UpdatedRowSkips(r, s) ==
    [r EXCEPT !.device_id = s.DeviceID, !.state = s.State, !.nonce = s.Nonce,
              !.version = r.version + 2, !.updated_at = NOW]

\* (mutant) the UPDATE without "nonce = $3"
UpdatedRowKeepsNonce(r, s) ==
    [r EXCEPT !.device_id = s.DeviceID, !.state = s.State,
              !.version = r.version + 1, !.updated_at = NOW]

\* SET device_id = $1, state = $2, nonce = $3, version = version + 1, updated_at = NOW()
UpdatedRow(r, s) ==
    [r EXCEPT !.device_id = s.DeviceID, !.state = s.State, !.nonce = s.Nonce,
              !.version = r.version + 1, !.updated_at = NOW]

\* (mutant) the UPDATE without "AND deleted_at IS NULL"
DeleteMatchesAnyRow(tbl, id) == id \in DOMAIN tbl

\* Delete's UPDATE: WHERE id = $1 AND deleted_at IS NULL
DeleteMatches(tbl, id) == id \in DOMAIN tbl /\ tbl[id].deleted_at = NULL

\* SET deleted_at = NOW()
DeletedRow(r) == [r EXCEPT !.deleted_at = NOW]

\* ------------------------------------------------------------- Upsert
\* The candidate a caller builds before it calls Upsert
Candidate(a, k, w, v) ==
    [ID |-> NilID, AccountID |-> a, DeviceID |-> w.device_id, Key |-> k,
     State |-> w.state, Nonce |-> w.nonce, Version |-> v,
     CreatedAt |-> NULL, UpdatedAt |-> NULL]

\* A caller invokes Upsert(state) and GetByKey runs its SELECT.
UpsertGetByKeyOn(p, a, k, w, v) ==
    /\ pc[p] = "ready"
    /\ state' = [state EXCEPT ![p] = Candidate(a, k, w, v)]
    /\ expected' = [expected EXCEPT ![p] = v]
    /\ target' = [target EXCEPT ![p] = GetByKey(rows, a, k)]
    /\ pc' = [pc EXCEPT ![p] =
           IF GetByKey(rows, a, k) = NilID THEN "create" ELSE "update"]
    /\ op' = [op EXCEPT ![p] = "Upsert"]
    /\ result' = [result EXCEPT ![p] = ErrNone]
    /\ UNCHANGED rows
    /\ UNCHANGED <<listing, sessionVars>>

UpsertGetByKey(p) ==
    \E a \in Accounts, k \in Keys, w \in Payloads, v \in Versions :
        UpsertGetByKeyOn(p, a, k, w, v)

\* create: the INSERT and the Scan of its RETURNING row
UpsertCreate(p) ==
    /\ pc[p] = "create"
    /\ pc' = [pc EXCEPT ![p] = "done"]
    /\ IF InsertAllowed(rows, state[p])
       THEN /\ rows' = Append(rows, InsertedRow(rows, state[p]))
            /\ state' = [state EXCEPT ![p].ID = InsertedRow(rows, state[p]).id,
                                      ![p].Version = InsertedRow(rows, state[p]).version,
                                      ![p].CreatedAt = InsertedRow(rows, state[p]).created_at,
                                      ![p].UpdatedAt = InsertedRow(rows, state[p]).updated_at]
            /\ result' = [result EXCEPT ![p] = ErrNone]
       ELSE /\ result' = [result EXCEPT ![p] = ErrCreateUnique]
            /\ UNCHANGED <<rows, state>>
    /\ UNCHANGED <<op, expected, target>>
    /\ UNCHANGED <<listing, sessionVars>>

\* (mutant) the UPDATE matches on the id alone and the version is compared
\* afterwards: a stale writer overwrites the row and is then told of the conflict
UpsertUpdateThenCompare(p) ==
    /\ pc[p] = "update"
    /\ pc' = [pc EXCEPT ![p] = "done"]
    /\ IF UpdateMatches(rows, state[p], target[p])
       THEN /\ rows' = [rows EXCEPT ![target[p]] = UpdatedRow(@, state[p])]
            /\ state' = [state EXCEPT ![p].ID = target[p],
                                      ![p].Version = UpdatedRow(rows[target[p]], state[p]).version,
                                      ![p].UpdatedAt = UpdatedRow(rows[target[p]], state[p]).updated_at]
            /\ result' = [result EXCEPT ![p] = ErrNone]
       ELSE /\ result' = [result EXCEPT ![p] = ErrVersionConflict]
            /\ rows' = [rows EXCEPT ![target[p]] = UpdatedRow(@, state[p])]
            /\ UNCHANGED state
    /\ UNCHANGED <<op, expected, target>>
    /\ UNCHANGED <<listing, sessionVars>>

\* update: the conditional UPDATE and the Scan of its RETURNING row
UpsertUpdate(p) ==
    /\ pc[p] = "update"
    /\ pc' = [pc EXCEPT ![p] = "done"]
    /\ IF UpdateMatches(rows, state[p], target[p])
       THEN /\ rows' = [rows EXCEPT ![target[p]] = UpdatedRow(@, state[p])]
            /\ state' = [state EXCEPT ![p].ID = target[p],
                                      ![p].Version = UpdatedRow(rows[target[p]], state[p]).version,
                                      ![p].UpdatedAt = UpdatedRow(rows[target[p]], state[p]).updated_at]
            /\ result' = [result EXCEPT ![p] = ErrNone]
       ELSE /\ result' = [result EXCEPT ![p] = ErrVersionConflict]
            /\ UNCHANGED <<rows, state>>
    /\ UNCHANGED <<op, expected, target>>
    /\ UNCHANGED <<listing, sessionVars>>

\* ------------------------------------------------------------- Delete
Ids == 1..(Cardinality(Accounts) * Cardinality(Keys))

DeleteOn(p, id) ==
    /\ pc[p] = "ready"
    /\ pc' = [pc EXCEPT ![p] = "done"]
    /\ target' = [target EXCEPT ![p] = id]
    /\ IF DeleteMatches(rows, id)
       THEN /\ rows' = [rows EXCEPT ![id] = DeletedRow(@)]
            /\ result' = [result EXCEPT ![p] = ErrNone]
       ELSE /\ result' = [result EXCEPT ![p] = ErrNotFound]
            /\ UNCHANGED rows
    /\ op' = [op EXCEPT ![p] = "Delete"]
    /\ UNCHANGED <<state, expected>>
    /\ UNCHANGED <<listing, sessionVars>>

Delete(p) == \E id \in Ids : DeleteOn(p, id)

\* The call has returned; the caller drops the candidate and is free to call again.
Return(p) ==
    /\ pc[p] = "done"
    /\ pc' = [pc EXCEPT ![p] = "ready"]
    /\ op' = [op EXCEPT ![p] = "none"]
    /\ state' = [state EXCEPT ![p] = NoState]
    /\ expected' = [expected EXCEPT ![p] = 0]
    /\ target' = [target EXCEPT ![p] = NilID]
    /\ result' = [result EXCEPT ![p] = ErrNone]
    /\ UNCHANGED rows
    /\ UNCHANGED <<listing, sessionVars>>

\* ------------------------------------------- a store call that fails
\* The pool call returns a transport error (or the context is canceled) and
\* the statement takes no effect.
UpsertGetByKeyFails(p) ==
    /\ pc[p] = "ready"
    /\ pc' = [pc EXCEPT ![p] = "done"]
    /\ \E a \in Accounts, k \in Keys, w \in Payloads, v \in Versions :
         /\ state' = [state EXCEPT ![p] = Candidate(a, k, w, v)]
         /\ expected' = [expected EXCEPT ![p] = v]
    /\ op' = [op EXCEPT ![p] = "Upsert"]
    /\ target' = [target EXCEPT ![p] = NilID]
    /\ result' = [result EXCEPT ![p] = ErrCheckExisting]
    /\ UNCHANGED rows
    /\ UNCHANGED <<listing, sessionVars>>

UpsertCreateFails(p) ==
    /\ pc[p] = "create"
    /\ pc' = [pc EXCEPT ![p] = "done"]
    /\ result' = [result EXCEPT ![p] = ErrCreate]
    /\ UNCHANGED <<rows, op, state, expected, target>>
    /\ UNCHANGED <<listing, sessionVars>>

UpsertUpdateFails(p) ==
    /\ pc[p] = "update"
    /\ pc' = [pc EXCEPT ![p] = "done"]
    /\ result' = [result EXCEPT ![p] = ErrUpdate]
    /\ UNCHANGED <<rows, op, state, expected, target>>
    /\ UNCHANGED <<listing, sessionVars>>

DeleteFails(p) ==
    /\ pc[p] = "ready"
    /\ pc' = [pc EXCEPT ![p] = "done"]
    /\ \E id \in Ids : target' = [target EXCEPT ![p] = id]
    /\ op' = [op EXCEPT ![p] = "Delete"]
    /\ result' = [result EXCEPT ![p] = ErrDelete]
    /\ UNCHANGED <<rows, state, expected>>
    /\ UNCHANGED <<listing, sessionVars>>

\* -------------------------------------------------------- specifications
\* Spec: the callers run Upsert and Delete concurrently, call after call, and
\* every store call is answered.
Next ==
    \E p \in Callers :
        \/ UpsertGetByKey(p)
        \/ UpsertCreate(p)
        \/ UpsertUpdate(p)
        \/ Delete(p)
        \/ Return(p)

Spec == Init /\ [][Next]_vars

\* SpecFail: as Spec, and any store call may fail.
NextFail ==
    \E p \in Callers :
        \/ UpsertGetByKey(p)
        \/ UpsertCreate(p)
        \/ UpsertUpdate(p)
        \/ Delete(p)
        \/ Return(p)
        \/ UpsertGetByKeyFails(p)
        \/ UpsertCreateFails(p)
        \/ UpsertUpdateFails(p)
        \/ DeleteFails(p)

SpecFail == Init /\ [][NextFail]_vars

\* SpecSeq: one caller makes NCalls calls one after the other on the fresh
\* table (the repository tests); call p is kept in slot p with what it returned.
Calls == 1..NCalls

SeqTurn(p) == pc[p] # "done" /\ \A q \in Calls : q < p => pc[q] = "done"

SeqUpsertGetByKey(p) == SeqTurn(p) /\ UpsertGetByKey(p)
SeqUpsertCreate(p) == SeqTurn(p) /\ UpsertCreate(p)
SeqUpsertUpdate(p) == SeqTurn(p) /\ UpsertUpdate(p)
SeqDelete(p) == SeqTurn(p) /\ Delete(p)

NextSeq ==
    \E p \in Calls :
        \/ SeqUpsertGetByKey(p)
        \/ SeqUpsertCreate(p)
        \/ SeqUpsertUpdate(p)
        \/ SeqDelete(p)

SpecSeq == InitFor(Calls) /\ [][NextSeq]_vars

\* SpecRace: a key holds an active row at some version v; NRacers callers have
\* read it and each makes one Upsert on that key carrying expected version v.
Racers == 1..NRacers

\* the row of the key after one create and v - 1 updates
RowAt(a, k, w, v) ==
    [id |-> 1, account_id |-> a, device_id |-> w.device_id, key |-> k,
     state |-> w.state, nonce |-> w.nonce, version |-> v, created_at |-> NOW,
     updated_at |-> IF v = 1 THEN NULL ELSE NOW, deleted_at |-> NULL]

InitRace ==
    \E a \in Accounts, k \in Keys, w \in Payloads, v \in 1..MaxVersion :
        /\ rows = <<RowAt(a, k, w, v)>>
        /\ pc = [p \in Racers |-> "ready"]
        /\ op = [p \in Racers |-> "none"]
        /\ state = [p \in Racers |-> NoState]
        /\ expected = [p \in Racers |-> v]
        /\ target = [p \in Racers |-> NilID]
        /\ result = [p \in Racers |-> ErrNone]
        /\ listing = NoListing
        /\ SessionInit
        /\ PresenceInit

RaceUpsertGetByKey(p) ==
    /\ op[p] = "none"
    /\ \E w \in Payloads :
         UpsertGetByKeyOn(p, rows[1].account_id, rows[1].key, w, expected[p])

NextRace ==
    \E p \in Racers :
        \/ RaceUpsertGetByKey(p)
        \/ UpsertUpdate(p)

SpecRace == InitRace /\ [][NextRace]_vars

\* SpecAccount: GetByAccountID is run on every table of up to MaxRows rows the
\* statements can leave behind: rows of both accounts, active and soft-deleted,
\* inserted in any order of account and key, one row per (account, key).
RowSlots == (Owners \X Keys) \X {NULL, NOW}

Tables(n) ==
    {f \in [1..n -> RowSlots] :
        \A i \in 1..n, j \in 1..n : i # j => f[i][1] # f[j][1]}

RowOf(i, slot) ==
    [id |-> i, account_id |-> slot[1][1], device_id |-> "d1", key |-> slot[1][2],
     state |-> "b1", nonce |-> "n1", version |-> 1, created_at |-> NOW,
     updated_at |-> NULL, deleted_at |-> slot[2]]

InitAccount ==
    /\ \E n \in 0..MaxRows : \E f \in Tables(n) :
           rows = [i \in 1..n |-> RowOf(i, f[i])]
    /\ pc = [p \in Callers |-> "ready"]
    /\ op = [p \in Callers |-> "none"]
    /\ state = [p \in Callers |-> NoState]
    /\ expected = [p \in Callers |-> 0]
    /\ target = [p \in Callers |-> NilID]
    /\ result = [p \in Callers |-> ErrNone]
    /\ listing = NoListing
    /\ SessionInit
    /\ PresenceInit

\* GetByAccountID(a): the SELECT and the loop over its rows
CallGetByAccountID(a) ==
    /\ listing' = [account |-> a, states |-> GetByAccountID(rows, a)]
    /\ UNCHANGED <<rows, pc, op, state, expected, target, result, sessionVars>>

NextAccount == \E a \in Owners : CallGetByAccountID(a)

SpecAccount == InitAccount /\ [][NextAccount]_vars

\* ======================================================= the session store
\* Every Redis command is one atomic step; the commands of one repository call
\* interleave with the commands of the other clients and with the clock.

\* GET session:{id} finds a value (Tick removes a key when its time is up)
KeyExists(keys, id) == keys[id] # NoKey

\* GetByID: the stored session, or ErrNotFound for redis.Nil
SessionGetByID(keys, id) == IF KeyExists(keys, id) THEN ErrNone ELSE ErrNotFound

\* client.Set(key, value, ttl) of go-redis: a positive ttl is sent as EX/PX,
\* any other ttl sends a plain SET and the key gets no expiry
SetSession(keys, session, ttl) ==
    [keys EXCEPT ![session.ID] =
        [session |-> session, ttl |-> IF ttl > 0 THEN ttl ELSE NoExpiry]]

\* the ids whose Create has not returned: Login has not yet signed the token
\* that carries the id, and no Logout can name it
Creating == {call[q].session.ID : q \in {x \in Clients : call[x].pc = "sadd"}}

\* the accounts whose Create is between its Set and its SAdd
CreatesInFlight == {call[q].session.AccountID : q \in {x \in Clients : call[x].pc = "sadd"}}

\* a DeleteAllForAccount that has not returned notes the account of a Create
\* that starts while it runs
NoteCreate(c, a) ==
    [q \in Clients |->
        IF q # c /\ call[q].op = "DeleteAllForAccount" /\ call[q].pc # "done"
        THEN [call[q] EXCEPT !.creates = @ \cup {a}] ELSE call[q]]

\* the frame of a call that has returned err: what the caller holds then (the
\* arguments it passed and the results); the locals of the call are gone.
\* Of a DeleteAllForAccount the frame keeps the sessions it deleted (sessions)
\* and the ids whose Delete failed, which it printed (expired), beside the
\* ids SMembers answered (snapshot); of a ListByAccountID the ids whose Get
\* failed, which it printed (failed).
Returned(frame, err) ==
    [Idle EXCEPT !.pc = "done", !.op = frame.op, !.err = err,
                 !.id = IF frame.op = "Create" THEN frame.session.ID
                        ELSE IF frame.op = "Delete" THEN frame.id ELSE NULL,
                 !.account = IF frame.op \in {"Create", "Delete"}
                             THEN frame.session.AccountID ELSE frame.account,
                 !.sessions = frame.sessions,
                 !.expired = IF frame.op = "DeleteAllForAccount" THEN frame.expired
                             ELSE {},
                 !.stale = frame.stale,
                 !.creates = frame.creates,
                 !.snapshot = frame.snapshot,
                 !.failed = frame.failed]

\* Create: ttl := time.Until(session.ExpiresAt), here life, and the Set of
\* the primary key
CreateSetOn(c, id, a, d, life) ==
    LET session == [ID |-> id, AccountID |-> a, DeviceID |-> d]
    IN /\ call[c].pc = "ready"
       /\ sessionKeys' = SetSession(sessionKeys, session, life)
       /\ call' = [NoteCreate(c, a) EXCEPT
                     ![c] = [Idle EXCEPT !.pc = "sadd", !.op = "Create",
                                         !.session = session]]
       /\ issued' = issued \cup {id}
       /\ UNCHANGED <<accountSessions, stateVars>>

\* Login calls Create with sessionID := uuid.New().String(): an id that no
\* earlier Create was given
CreateSet(c) ==
    \E id \in SessionIDs \ issued, a \in Owners, d \in Devices, life \in Lifetimes :
        CreateSetOn(c, id, a, d, life)

\* Create: SAdd of the id to the set of the account
CreateSAdd(c) ==
    /\ call[c].pc = "sadd"
    /\ accountSessions' = [accountSessions EXCEPT
                             ![call[c].session.AccountID] = @ \cup {call[c].session.ID}]
    /\ call' = [call EXCEPT ![c] = Returned(call[c], ErrNone)]
    /\ UNCHANGED <<sessionKeys, issued, stateVars>>

\* the members of the set of the account whose primary key is gone (noted
\* in the frame of a ListByAccountID when it starts)
StaleMembers(a) == {id \in accountSessions[a] : ~KeyExists(sessionKeys, id)}

\* ListByAccountID: SMembers of the set of the account
ListSMembersOn(c, a) ==
    LET frame == [Idle EXCEPT !.op = "ListByAccountID", !.account = a,
                              !.todo = accountSessions[a],
                              !.stale = StaleMembers(a)]
    IN /\ call[c].pc = "ready"
       /\ call' = [call EXCEPT ![c] = IF frame.todo = {} THEN Returned(frame, ErrNone)
                                      ELSE [frame EXCEPT !.pc = "loop"]]
       /\ UNCHANGED <<sessionKeys, accountSessions, issued, stateVars>>

ListSMembers(c) == \E a \in Owners : ListSMembersOn(c, a)

\* ListByAccountID: the Get of the next id of the loop; redis.Nil puts the id
\* on expiredIDs, a value is appended to sessions
ListGet(c) ==
    /\ call[c].pc = "loop"
    /\ call[c].op = "ListByAccountID"
    /\ \E id \in call[c].todo :
         LET frame == [call[c] EXCEPT
                         !.todo = @ \ {id},
                         !.expired = IF KeyExists(sessionKeys, id) THEN @
                                     ELSE @ \cup {id},
                         !.sessions = IF KeyExists(sessionKeys, id)
                                      THEN @ \cup {sessionKeys[id].session} ELSE @]
         IN call' = [call EXCEPT
                       ![c] = IF frame.todo # {} THEN frame
                              ELSE IF frame.expired # {}
                                   THEN [frame EXCEPT !.pc = "cleanup"]
                                   ELSE Returned(frame, ErrNone)]
    /\ UNCHANGED <<sessionKeys, accountSessions, issued, stateVars>>

\* (mutant) ListByAccountID without the SRem of expiredIDs
ListSRemSkipped(c) ==
    /\ call[c].pc = "cleanup"
    /\ call' = [call EXCEPT ![c] = Returned(call[c], ErrNone)]
    /\ UNCHANGED <<sessionKeys, accountSessions, issued, stateVars>>

\* (mutant) ListByAccountID clearing the whole set of the account
ListSRemClearsAll(c) ==
    /\ call[c].pc = "cleanup"
    /\ accountSessions' = [accountSessions EXCEPT ![call[c].account] = {}]
    /\ call' = [call EXCEPT ![c] = Returned(call[c], ErrNone)]
    /\ UNCHANGED <<sessionKeys, issued, stateVars>>

\* ListByAccountID: SRem of expiredIDs from the set of the account
ListSRem(c) ==
    /\ call[c].pc = "cleanup"
    /\ accountSessions' = [accountSessions EXCEPT
                             ![call[c].account] = @ \ call[c].expired]
    /\ call' = [call EXCEPT ![c] = Returned(call[c], ErrNone)]
    /\ UNCHANGED <<sessionKeys, issued, stateVars>>

\* Delete(id): GetByID; ErrNotFound, like every other error, ends the call
DeleteGetByIDOn(c, id) ==
    LET frame == [Idle EXCEPT !.op = "Delete", !.id = id]
    IN /\ call[c].pc = "ready"
       /\ call' = [call EXCEPT
                     ![c] = IF KeyExists(sessionKeys, id)
                            THEN [frame EXCEPT !.pc = "srem",
                                               !.session = sessionKeys[id].session]
                            ELSE Returned(frame, ErrGetSession)]
       /\ UNCHANGED <<sessionKeys, accountSessions, issued, stateVars>>

DeleteGetByID(c) == \E id \in SessionIDs \ Creating : DeleteGetByIDOn(c, id)

\* (mutant) Delete without the SRem
DeleteSRemSkipped(c) ==
    /\ call[c].pc = "srem"
    /\ call' = [call EXCEPT ![c].pc = "del"]
    /\ UNCHANGED <<sessionKeys, accountSessions, issued, stateVars>>

\* Delete: SRem of the id from the set of the account of the fetched session
DeleteSRem(c) ==
    /\ call[c].pc = "srem"
    /\ accountSessions' = [accountSessions EXCEPT
                             ![call[c].session.AccountID] = @ \ {call[c].id}]
    /\ call' = [call EXCEPT ![c].pc = "del"]
    /\ UNCHANGED <<sessionKeys, issued, stateVars>>

\* Delete: Del of the primary key; inside DeleteAllForAccount the loop goes on
DeleteDel(c) ==
    /\ call[c].pc = "del"
    /\ sessionKeys' = [sessionKeys EXCEPT ![call[c].id] = NoKey]
    /\ LET frame == IF call[c].op = "DeleteAllForAccount"
                    THEN [call[c] EXCEPT !.sessions = @ \cup {call[c].session}]
                    ELSE call[c]
       IN call' = [call EXCEPT
                     ![c] = IF frame.op = "DeleteAllForAccount" /\ frame.todo # {}
                            THEN [frame EXCEPT !.pc = "loop", !.id = NULL,
                                               !.session = NoSession]
                            ELSE Returned(frame, ErrNone)]
    /\ UNCHANGED <<accountSessions, issued, stateVars>>

\* DeleteAllForAccount: SMembers of the set of the account
DeleteAllSMembersOn(c, a) ==
    LET frame == [Idle EXCEPT !.op = "DeleteAllForAccount", !.account = a,
                              !.todo = accountSessions[a],
                              !.snapshot = accountSessions[a],
                              !.creates = CreatesInFlight]
    IN /\ call[c].pc = "ready"
       /\ call' = [call EXCEPT ![c] = IF frame.todo = {} THEN Returned(frame, ErrNone)
                                      ELSE [frame EXCEPT !.pc = "loop"]]
       /\ UNCHANGED <<sessionKeys, accountSessions, issued, stateVars>>

DeleteAllSMembers(c) == \E a \in Owners : DeleteAllSMembersOn(c, a)

\* (mutant) the loop of DeleteAllForAccount ends at the first Delete that fails
DeleteAllGetByIDAborts(c) ==
    /\ call[c].pc = "loop"
    /\ call[c].op = "DeleteAllForAccount"
    /\ \E id \in call[c].todo :
         LET frame == [call[c] EXCEPT !.todo = @ \ {id}]
         IN call' = [call EXCEPT
                       ![c] = IF KeyExists(sessionKeys, id)
                              THEN [frame EXCEPT !.pc = "srem", !.id = id,
                                                 !.session = sessionKeys[id].session]
                              ELSE Returned([frame EXCEPT !.expired = @ \cup {id}],
                                            ErrNone)]
    /\ UNCHANGED <<sessionKeys, accountSessions, issued, stateVars>>

\* DeleteAllForAccount: the Delete of the next id begins with its GetByID; an
\* error of Delete is printed and the loop continues
DeleteAllGetByID(c) ==
    /\ call[c].pc = "loop"
    /\ call[c].op = "DeleteAllForAccount"
    /\ \E id \in call[c].todo :
         LET frame == [call[c] EXCEPT !.todo = @ \ {id}]
             missed == [frame EXCEPT !.expired = @ \cup {id}]
         IN call' = [call EXCEPT
                       ![c] = IF KeyExists(sessionKeys, id)
                              THEN [frame EXCEPT !.pc = "srem", !.id = id,
                                                 !.session = sessionKeys[id].session]
                              ELSE IF missed.todo # {} THEN missed
                                   ELSE Returned(missed, ErrNone)]
    /\ UNCHANGED <<sessionKeys, accountSessions, issued, stateVars>>

\* one unit of time passes: the keys with an expiry have one unit less to
\* live, and Redis removes the keys whose time is up
Tick ==
    /\ \E id \in SessionIDs : sessionKeys[id].ttl # NoExpiry
    /\ sessionKeys' = [id \in SessionIDs |->
                         IF sessionKeys[id].ttl = NoExpiry THEN sessionKeys[id]
                         ELSE IF sessionKeys[id].ttl = 1 THEN NoKey
                         ELSE [sessionKeys[id] EXCEPT !.ttl = @ - 1]]
    /\ UNCHANGED <<accountSessions, call, issued, stateVars>>

\* The call has returned and the client is free to call again.
SessionReturn(c) ==
    /\ call[c].pc = "done"
    /\ call' = [call EXCEPT ![c] = Idle]
    /\ UNCHANGED <<sessionKeys, accountSessions, issued, stateVars>>

\* SpecSession: the clients run their calls concurrently while time passes and
\* every command is answered.  Every client runs Create and Delete; the
\* clients in Listers also run ListByAccountID and DeleteAllForAccount.
NextSession ==
    \/ \E c \in Clients :
          \/ CreateSet(c)
          \/ CreateSAdd(c)
          \/ DeleteGetByID(c)
          \/ DeleteSRem(c)
          \/ DeleteDel(c)
          \/ SessionReturn(c)
    \/ \E c \in Listers :
          \/ ListSMembers(c)
          \/ ListGet(c)
          \/ ListSRem(c)
          \/ DeleteAllSMembers(c)
          \/ DeleteAllGetByID(c)
    \/ Tick

SpecSession == Init /\ [][NextSession]_vars

\* ---- the Redis commands of Delete and DeleteAllForAccount that fail (the
\* server is unreachable, the context is cancelled): the command changes
\* nothing and the method takes its error path
\* a Delete inside DeleteAllForAccount has failed for the id in hand: the error
\* is printed and the loop continues; a Delete of its own returns the error
DeleteFailed(frame, id, err) ==
    IF frame.op = "DeleteAllForAccount"
    THEN LET printed == [frame EXCEPT !.expired = @ \cup {id}, !.id = NULL,
                                       !.session = NoSession, !.pc = "loop"]
         IN IF printed.todo # {} THEN printed ELSE Returned(printed, ErrNone)
    ELSE Returned(frame, err)

\* Delete: the SRem fails; the key is not deleted
DeleteSRemFails(c) ==
    /\ call[c].pc = "srem"
    /\ call' = [call EXCEPT
                  ![c] = DeleteFailed(call[c], call[c].id, ErrRemoveSession)]
    /\ UNCHANGED <<sessionKeys, accountSessions, issued, stateVars>>

\* Delete: the Del fails after the SRem has removed the id from the set
DeleteDelFails(c) ==
    /\ call[c].pc = "del"
    /\ call' = [call EXCEPT
                  ![c] = DeleteFailed(call[c], call[c].id, ErrDeleteSession)]
    /\ UNCHANGED <<sessionKeys, accountSessions, issued, stateVars>>

\* DeleteAllForAccount: the SMembers fails and the error is returned
DeleteAllSMembersFails(c) ==
    /\ call[c].pc = "ready"
    /\ \E a \in Owners :
         call' = [call EXCEPT
                    ![c] = Returned([Idle EXCEPT !.op = "DeleteAllForAccount",
                                                 !.account = a],
                                    ErrAccountSessions)]
    /\ UNCHANGED <<sessionKeys, accountSessions, issued, stateVars>>

\* DeleteAllForAccount: the Get of the Delete of the next id fails
DeleteAllGetByIDFails(c) ==
    /\ call[c].pc = "loop"
    /\ call[c].op = "DeleteAllForAccount"
    /\ \E id \in call[c].todo :
         call' = [call EXCEPT
                    ![c] = DeleteFailed([call[c] EXCEPT !.todo = @ \ {id}],
                                        id, ErrGetSessionStore)]
    /\ UNCHANGED <<sessionKeys, accountSessions, issued, stateVars>>

\* SpecSessionFail: the listers run DeleteAllForAccount, the other client
\* runs Create, time passes, and any command of DeleteAllForAccount and of
\* the Delete calls it makes may fail.
NextSessionFail ==
    \/ \E c \in Clients \ Listers :
          \/ CreateSet(c)
          \/ CreateSAdd(c)
    \/ \E c \in Listers :
          \/ DeleteAllSMembers(c)
          \/ DeleteAllSMembersFails(c)
          \/ DeleteAllGetByID(c)
          \/ DeleteAllGetByIDFails(c)
          \/ DeleteSRem(c)
          \/ DeleteSRemFails(c)
          \/ DeleteDel(c)
          \/ DeleteDelFails(c)
    \/ \E c \in Clients : SessionReturn(c)
    \/ Tick

SpecSessionFail == Init /\ [][NextSessionFail]_vars

\* ---- the Redis commands of ListByAccountID that fail
\* ListByAccountID: the SMembers fails and the error is returned
ListSMembersFails(c) ==
    /\ call[c].pc = "ready"
    /\ \E a \in Owners :
         call' = [call EXCEPT
                    ![c] = Returned([Idle EXCEPT !.op = "ListByAccountID",
                                                 !.account = a],
                                    ErrAccountSessions)]
    /\ UNCHANGED <<sessionKeys, accountSessions, issued, stateVars>>

\* ListByAccountID: the Get of the next id fails with an error other than
\* redis.Nil; the error is printed and the loop continues
ListGetFails(c) ==
    /\ call[c].pc = "loop"
    /\ call[c].op = "ListByAccountID"
    /\ \E id \in call[c].todo :
         LET frame == [call[c] EXCEPT !.todo = @ \ {id},
                                      !.failed = @ \cup {id}]
         IN call' = [call EXCEPT
                       ![c] = IF frame.todo # {} THEN frame
                              ELSE IF frame.expired # {}
                                   THEN [frame EXCEPT !.pc = "cleanup"]
                                   ELSE Returned(frame, ErrNone)]
    /\ UNCHANGED <<sessionKeys, accountSessions, issued, stateVars>>

\* ListByAccountID: the SRem of expiredIDs fails and the error is returned
ListSRemFails(c) ==
    /\ call[c].pc = "cleanup"
    /\ call' = [call EXCEPT ![c] = Returned(call[c], ErrRemoveExpired)]
    /\ UNCHANGED <<sessionKeys, accountSessions, issued, stateVars>>

\* SpecStoreFail: the listers run ListByAccountID and Delete, the other client
\* runs Create, time passes, and any command of ListByAccountID and the SRem
\* and the Del of Delete may fail.
NextStoreFail ==
    \/ \E c \in Clients \ Listers :
          \/ CreateSet(c)
          \/ CreateSAdd(c)
    \/ \E c \in Listers :
          \/ ListSMembers(c)
          \/ ListSMembersFails(c)
          \/ ListGet(c)
          \/ ListGetFails(c)
          \/ ListSRem(c)
          \/ ListSRemFails(c)
          \/ DeleteGetByID(c)
          \/ DeleteSRem(c)
          \/ DeleteSRemFails(c)
          \/ DeleteDel(c)
          \/ DeleteDelFails(c)
    \/ \E c \in Clients : SessionReturn(c)
    \/ Tick

SpecStoreFail == Init /\ [][NextStoreFail]_vars

\* SpecReuse: as the repository allows, a caller gives Create the id of a
\* session that is gone (expired or deleted), under any account.  One
\* lister runs ListByAccountID, another client runs Create and Delete, time
\* passes and every command is answered.
ReuseListers == {1}

CreateReuse(c) ==
    \E id \in SessionIDs \ Creating, a \in Owners, d \in Devices, life \in Lifetimes :
        /\ ~KeyExists(sessionKeys, id)
        /\ CreateSetOn(c, id, a, d, life)

NextReuse ==
    \/ \E c \in Clients \ Listers :
          \/ CreateReuse(c)
          \/ CreateSAdd(c)
          \/ DeleteGetByID(c)
          \/ DeleteSRem(c)
          \/ DeleteDel(c)
    \/ \E c \in ReuseListers :
          \/ ListSMembers(c)
          \/ ListGet(c)
          \/ ListSRem(c)
    \/ \E c \in Clients : SessionReturn(c)
    \/ Tick

SpecReuse == Init /\ [][NextReuse]_vars

\* (mutant) GetByID renewing the time to live of the key it reads
GetByIDRenewsOn(c, id) ==
    LET frame == [Idle EXCEPT !.op = "GetByID", !.id = id]
    IN /\ call[c].pc = "ready"
       /\ call' = [call EXCEPT
                     ![c] = [Returned(frame, SessionGetByID(sessionKeys, id)) EXCEPT
                                !.id = id,
                                !.session = IF KeyExists(sessionKeys, id)
                                            THEN sessionKeys[id].session
                                            ELSE NoSession]]
       /\ sessionKeys' = IF KeyExists(sessionKeys, id)
                         THEN [sessionKeys EXCEPT ![id].ttl = MaxLifetime]
                         ELSE sessionKeys
       /\ UNCHANGED <<accountSessions, issued, stateVars>>

\* a call of GetByID(id): one Get of the primary key; the caller holds the
\* session it answered, or ErrNotFound
GetByIDOn(c, id) ==
    LET frame == [Idle EXCEPT !.op = "GetByID", !.id = id]
    IN /\ call[c].pc = "ready"
       /\ call' = [call EXCEPT
                     ![c] = [Returned(frame, SessionGetByID(sessionKeys, id)) EXCEPT
                                !.id = id,
                                !.session = IF KeyExists(sessionKeys, id)
                                            THEN sessionKeys[id].session
                                            ELSE NoSession]]
       /\ UNCHANGED <<sessionKeys, accountSessions, issued, stateVars>>


\* SpecLister: lister c keeps invoking ListByAccountID for the account
\* ListerAccounts[c], call after call, and its steps are taken sooner or later
\* (weak fairness); the other clients run Create and Delete while time passes.
ListerAccounts == <<"a1", "a2">>

ListerStep(c) ==
    \/ ListSMembersOn(c, ListerAccounts[c])
    \/ ListGet(c)
    \/ ListSRem(c)
    \/ SessionReturn(c)

NextLister ==
    \/ \E c \in Listers : ListerStep(c)
    \/ \E c \in Clients \ Listers :
          \/ CreateSet(c)
          \/ CreateSAdd(c)
          \/ DeleteGetByID(c)
          \/ DeleteSRem(c)
          \/ DeleteDel(c)
          \/ SessionReturn(c)
    \/ Tick

SpecLister ==
    /\ Init
    /\ [][NextLister]_vars
    /\ \A c \in Listers : WF_vars(ListerStep(c))

\* ============================================================ AuthService
\* Login, Logout and VerifyToken over the session repository.  Time left to
\* the exp claim of a token is kept the way the time to live of a key is.

\* jwt.Parse with the HMAC key: the signature is right only for a token that
\* Login signed, and the exp claim must lie ahead; then the claims sub,
\* device_id and jti are taken from the token.  No session is looked up.
VerifyToken(token) ==
    IF token.signed /\ token.left > 0 THEN ErrNone ELSE ErrInvalidToken

\* Login, up to the session it builds: the credentials checked, the device
\* found, sessionID := uuid.New() and expiresAt := now + jwtExpiry
LoginBegin(c) ==
    /\ call[c].pc = "ready"
    /\ \A id \in SessionIDs : ~(tokens[id].holder = c /\ ~tokens[id].signed)
    /\ \E id \in SessionIDs \ issued, a \in Owners, d \in Devices :
         /\ tokens[id] = NoToken
         /\ tokens' = [tokens EXCEPT
                         ![id] = [sub |-> a, device_id |-> d, jti |-> id,
                                  left |-> JwtExpiry, holder |-> c,
                                  signed |-> FALSE]]
    /\ UNCHANGED <<rows, pc, op, state, expected, target, result, listing,
                   sessionKeys, accountSessions, call, issued, presenceVars>>

\* Login: sessionRepo.Create, whose ttl is the time left to expiresAt
LoginCreateSet(c) ==
    \E id \in SessionIDs \ issued :
        /\ tokens[id].holder = c
        /\ CreateSetOn(c, id, tokens[id].sub, tokens[id].device_id,
                       tokens[id].left)

\* Login: generateToken signs the claims and the token is returned
LoginToken(c) ==
    /\ call[c].pc = "done"
    /\ call[c].op = "Create"
    /\ tokens' = [tokens EXCEPT ![call[c].id].signed = TRUE]
    /\ call' = [call EXCEPT ![c] = Idle]
    /\ UNCHANGED <<rows, pc, op, state, expected, target, result, listing,
                   sessionKeys, accountSessions, issued, presenceVars>>

\* the tokens a client can present: Login has returned them
Signed == {id \in SessionIDs : tokens[id].signed}

\* Logout(token): VerifyToken fails and its error is returned
LogoutInvalid(c) ==
    /\ call[c].pc = "ready"
    /\ \E id \in Signed :
         /\ VerifyToken(tokens[id]) = ErrInvalidToken
         /\ call' = [call EXCEPT
                       ![c] = Returned([Idle EXCEPT !.op = "Logout"],
                                       ErrInvalidToken)]
    /\ UNCHANGED <<rows, pc, op, state, expected, target, result, listing,
                   sessionKeys, accountSessions, issued, tokens, presenceVars>>

\* Logout(token): VerifyToken accepts the token and sessionRepo.Delete of
\* its jti begins; the error of Delete, or nil, is what Logout returns
LogoutDelete(c) ==
    \E id \in Signed :
        /\ VerifyToken(tokens[id]) = ErrNone
        /\ DeleteGetByIDOn(c, tokens[id].jti)

\* one unit of time passes for the keys and for the exp claims
AuthTick ==
    /\ \/ \E id \in SessionIDs : sessionKeys[id].ttl # NoExpiry
       \/ \E id \in SessionIDs : tokens[id].left > 0
    /\ sessionKeys' = [id \in SessionIDs |->
                         IF sessionKeys[id].ttl = NoExpiry THEN sessionKeys[id]
                         ELSE IF sessionKeys[id].ttl = 1 THEN NoKey
                         ELSE [sessionKeys[id] EXCEPT !.ttl = @ - 1]]
    /\ tokens' = [id \in SessionIDs |->
                    IF tokens[id].left > 0
                    THEN [tokens[id] EXCEPT !.left = @ - 1] ELSE tokens[id]]
    /\ UNCHANGED <<rows, pc, op, state, expected, target, result, listing,
                   accountSessions, call, issued, presenceVars>>

\* SpecAuth: the clients log in and log out with the tokens that Login has
\* returned, while time passes.
NextAuth ==
    \/ \E c \in Clients :
          \/ LoginBegin(c)
          \/ LoginCreateSet(c)
          \/ CreateSAdd(c)
          \/ LoginToken(c)
          \/ LogoutInvalid(c)
          \/ LogoutDelete(c)
          \/ DeleteSRem(c)
          \/ DeleteDel(c)
          \/ call[c].op # "Create" /\ SessionReturn(c)
    \/ AuthTick

SpecAuth == Init /\ [][NextAuth]_vars

\* ===================================================== the presence store
\* Every method is one Redis command and so one atomic step.  reply keeps the
\* last call: its method, the ids it was given, the error and the presences
\* it returned, and what the key of a written device held before.

\* the key holds a value (PresenceTick removes a key when its time is up)
PresenceExists(store, d) == store[d].value # NilValue

\* (mutant) GetPresence returning ErrNotFound for a key that is not there
GetPresenceNotFound(store, d) ==
    IF ~PresenceExists(store, d)
    THEN [err |-> ErrNotFound, presence |-> NoPresence]
    ELSE Unmarshal(store[d].value)

\* GetPresence(deviceID): redis.Nil is answered with the offline record; a
\* value that does not unmarshal is an error
GetPresence(store, d) ==
    IF ~PresenceExists(store, d)
    THEN [err |-> ErrNone, presence |-> Offline(d)]
    ELSE Unmarshal(store[d].value)

\* the values MGet answers are strings and nil
IsString(v) == v.kind \in {"json", "text"}

\* the entry GetBulkPresence makes for id from the value v of its key
BulkEntry(v, id) ==
    IF v.kind = "nil" THEN Offline(id)
    ELSE IF Unmarshal(v).err # ErrNone THEN Offline(id)
    ELSE Unmarshal(v).presence

\* (mutant) GetBulkPresence making no entry for a value that does not unmarshal
GetBulkPresenceSkips(store, ids) ==
    LET answered == {i \in DOMAIN ids :
                        store[ids[i]].value.kind \in {"nil", "json"}}
    IN [err |-> ErrNone,
        presences |-> [id \in {ids[i] : i \in answered} |->
                          BulkEntry(store[id].value, id)]]

\* GetBulkPresence(deviceIDs): the empty list is answered with the empty map;
\* else one MGet, and for every position an entry under the id of that
\* position: the offline record for nil and for a value that does not
\* unmarshal, the stored presence otherwise; a result that is not a string is
\* passed over
GetBulkPresence(store, ids) ==
    LET answered == {i \in DOMAIN ids :
                        \/ store[ids[i]].value.kind = "nil"
                        \/ IsString(store[ids[i]].value)}
    IN [err |-> ErrNone,
        presences |-> IF Len(ids) = 0 THEN NoPresences
                      ELSE [id \in {ids[i] : i \in answered} |->
                               BulkEntry(store[id].value, id)]]

\* (mutant) SetPresence keeping the time to live of a key that exists
SetPresenceKeepsTTLOn(a, d, st) ==
    LET p == [AccountID |-> a, DeviceID |-> d, Status |-> st, LastSeen |-> now]
    IN /\ presence' = [presence EXCEPT
                         ![d] = [value |-> Marshal(p),
                                 ttl |-> IF PresenceExists(presence, d)
                                         THEN presence[d].ttl ELSE presenceTTL]]
       /\ reply' = [op |-> "SetPresence", ids |-> <<d>>, err |-> ErrNone,
                    presences |-> [x \in {d} |-> p], before |-> presence[d]]
       /\ UNCHANGED <<now, rows, pc, op, state, expected, target, result,
                      listing, sessionKeys, accountSessions, call, issued, tokens>>

\* SetPresence(presence): LastSeen := time.Now() in the caller's record, and
\* Set of its JSON with presenceTTL
SetPresenceOn(a, d, st) ==
    LET p == [AccountID |-> a, DeviceID |-> d, Status |-> st, LastSeen |-> now]
    IN /\ presence' = [presence EXCEPT
                         ![d] = [value |-> Marshal(p), ttl |-> presenceTTL]]
       /\ reply' = [op |-> "SetPresence", ids |-> <<d>>, err |-> ErrNone,
                    presences |-> [x \in {d} |-> p], before |-> presence[d]]
       /\ UNCHANGED <<now, rows, pc, op, state, expected, target, result,
                      listing, sessionKeys, accountSessions, call, issued, tokens>>

SetPresence == \E a \in Accounts, d \in PresenceDevices, st \in Statuses :
                   SetPresenceOn(a, d, st)

\* a call of GetPresence
GetPresenceOn(d) ==
    /\ reply' = [op |-> "GetPresence", ids |-> <<d>>,
                 err |-> GetPresence(presence, d).err,
                 presences |-> [x \in {d} |-> GetPresence(presence, d).presence],
                 before |-> NoPresenceKey]
    /\ UNCHANGED <<presence, now, rows, pc, op, state, expected, target, result,
                   listing, sessionKeys, accountSessions, call, issued, tokens>>

CallGetPresence == \E d \in PresenceDevices : GetPresenceOn(d)

\* (mutant) DeletePresence leaving the key to its time to live
DeletePresenceLeavesKeyOn(d) ==
    /\ reply' = [op |-> "DeletePresence", ids |-> <<d>>, err |-> ErrNone,
                 presences |-> NoPresences, before |-> presence[d]]
    /\ UNCHANGED <<presence, now, rows, pc, op, state, expected, target, result,
                   listing, sessionKeys, accountSessions, call, issued, tokens>>

\* DeletePresence(deviceID): Del of the key, which succeeds for a key that is
\* not there
DeletePresenceOn(d) ==
    /\ presence' = [presence EXCEPT ![d] = NoPresenceKey]
    /\ reply' = [op |-> "DeletePresence", ids |-> <<d>>, err |-> ErrNone,
                 presences |-> NoPresences, before |-> presence[d]]
    /\ UNCHANGED <<now, rows, pc, op, state, expected, target, result,
                   listing, sessionKeys, accountSessions, call, issued, tokens>>

DeletePresence == \E d \in PresenceDevices : DeletePresenceOn(d)

\* the lists of device ids a caller gives, repeated ids among them
IdLists == UNION {[1..n -> PresenceDevices] : n \in 0..MaxIds}

\* a call of GetBulkPresence
GetBulkPresenceOn(ids) ==
    /\ reply' = [op |-> "GetBulkPresence", ids |-> ids,
                 err |-> GetBulkPresence(presence, ids).err,
                 presences |-> GetBulkPresence(presence, ids).presences,
                 before |-> NoPresenceKey]
    /\ UNCHANGED <<presence, now, rows, pc, op, state, expected, target, result,
                   listing, sessionKeys, accountSessions, call, issued, tokens>>

CallGetBulkPresence == \E ids \in IdLists : GetBulkPresenceOn(ids)

\* one unit of time passes: the clock advances, the keys have one unit less
\* to live, and Redis removes the keys whose time is up
PresenceTick ==
    /\ now < MaxNow
    /\ now' = now + 1
    /\ presence' = [d \in PresenceDevices |->
                      IF ~PresenceExists(presence, d) THEN presence[d]
                      ELSE IF presence[d].ttl = 1 THEN NoPresenceKey
                      ELSE [presence[d] EXCEPT !.ttl = @ - 1]]
    /\ UNCHANGED <<reply, rows, pc, op, state, expected, target, result,
                   listing, sessionKeys, accountSessions, call, issued, tokens>>

\* SpecPresence: heartbeats, sign-offs and lookups in any order while time
\* passes.
NextPresence ==
    \/ SetPresence
    \/ CallGetPresence
    \/ DeletePresence
    \/ CallGetBulkPresence
    \/ PresenceTick

SpecPresence == Init /\ [][NextPresence]_vars

\* SpecBulk: the lookups as functions of the store.  Each key holds nothing
\* (never written, expired or deleted), the JSON of a presence written at the
\* start of the clock, or a string that is not such JSON.
StoredKeys(d) ==
    {NoPresenceKey, [value |-> NotJSON, ttl |-> presenceTTL]} \cup
    {[value |-> Marshal([AccountID |-> a, DeviceID |-> d, Status |-> st,
                         LastSeen |-> 1]),
      ttl |-> presenceTTL] : a \in Accounts, st \in Statuses}

InitBulk ==
    /\ rows = <<>>
    /\ pc = [p \in Callers |-> "ready"]
    /\ op = [p \in Callers |-> "none"]
    /\ state = [p \in Callers |-> NoState]
    /\ expected = [p \in Callers |-> 0]
    /\ target = [p \in Callers |-> NilID]
    /\ result = [p \in Callers |-> ErrNone]
    /\ listing = NoListing
    /\ SessionInit
    /\ \E f \in [PresenceDevices -> UNION {StoredKeys(d) : d \in PresenceDevices}] :
          /\ \A d \in PresenceDevices : f[d] \in StoredKeys(d)
          /\ presence = f
    /\ now = 1
    /\ reply = NoReply

NextBulk ==
    \/ CallGetPresence
    \/ CallGetBulkPresence

SpecBulk == InitBulk /\ [][NextBulk]_vars

\* SpecReads: the lookups of both Redis repositories beside the writes that
\* give them something to read.  Client 3 creates sessions; the client of
\* ReuseListers calls GetByID and ListByAccountID; the presence of one
\* device is written, and presences are looked up one by one and in bulk;
\* time passes in both stores.
NextReads ==
    \/ CreateSet(3)
    \/ CreateSAdd(3)
    \/ SessionReturn(3)
    \/ \E c \in ReuseListers :
          \/ \E id \in SessionIDs : GetByIDOn(c, id)
          \/ ListSMembers(c)
          \/ ListGet(c)
          \/ ListSRem(c)
          \/ SessionReturn(c)
    \/ Tick
    \/ SetPresenceOn("a1", "d1", "online")
    \/ CallGetPresence
    \/ GetBulkPresenceOn(<<"d2", "d1">>)
    \/ PresenceTick

SpecReads == Init /\ [][NextReads]_vars

\* ================================================================ claims
\* a step in which caller p's Upsert returns nil
UpsertSucceeds(p) ==
    /\ pc[p] \in {"create", "update"}
    /\ pc'[p] = "done"
    /\ result'[p] = ErrNone

\* C1: (SpecRace) a key holds an active row at version v and the racers all
\* carry expected version v: as soon as one racer has returned, exactly one
\* racer has returned nil and it got version v + 1, every other racer that has
\* returned got ErrVersionConflict, and the stored version is exactly v + 1
\* (it is v until then).
C1_RaceOneWinner ==
    LET D == {p \in Racers : pc[p] = "done"}
        W == {p \in D : result[p] = ErrNone}
    IN  /\ D = {} => rows[1].version = expected[1]
        /\ D # {} =>
              /\ Cardinality(W) = 1
              /\ \A p \in W : state[p].Version = expected[p] + 1 /\ state[p].ID = 1
              /\ \A p \in D \ W : result[p] = ErrVersionConflict
              /\ rows[1].version = expected[1] + 1

\* C1 witness: every racer has returned, one with nil and the others with a conflict
C1_Witness ==
    /\ DOMAIN pc = Racers
    /\ \A p \in Racers : pc[p] = "done"
    /\ Cardinality({p \in Racers : result[p] = ErrVersionConflict}) >= 1
    /\ Cardinality({p \in Racers : result[p] = ErrNone}) = 1
    /\ Cardinality(Racers) >= 2

\* C2: every stored version is at least 1; a row keeps its id, account and key;
\* a step leaves a row's version unchanged, or it is the step in which an
\* Upsert returns nil, and then exactly that row is new with version 1 or has
\* its version raised by exactly 1, and that new version is what the Upsert
\* returns in the candidate.
C2_VersionSteps ==
    [][ /\ \A i \in DOMAIN rows : rows[i].version >= 1
        /\ DOMAIN rows \subseteq DOMAIN rows'
        /\ \A i \in DOMAIN rows' :
              /\ rows'[i].version >= 1
              /\ i \in DOMAIN rows =>
                    /\ rows'[i].account_id = rows[i].account_id
                    /\ rows'[i].key = rows[i].key
              /\ \/ i \in DOMAIN rows /\ rows'[i].version = rows[i].version
                 \/ /\ IF i \in DOMAIN rows
                          THEN rows'[i].version = rows[i].version + 1
                          ELSE rows'[i].version = 1
                    /\ \E p \in Callers :
                          /\ UpsertSucceeds(p)
                          /\ state'[p].ID = i
                          /\ state'[p].Version = rows'[i].version
                          /\ rows'[i].account_id = state[p].AccountID
                          /\ rows'[i].key = state[p].Key
        /\ \A p \in Callers : UpsertSucceeds(p) =>
              /\ state'[p].ID \in DOMAIN rows'
              /\ state'[p].Version = rows'[state'[p].ID].version
              /\ state'[p].ID \in DOMAIN rows =>
                    rows[state'[p].ID].version = state'[p].Version - 1
      ]_vars

\* C2 witness: an Upsert has returned the version MaxVersion + 1, reached in steps of 1
C2_Witness ==
    \E p \in DOMAIN pc :
        /\ pc[p] = "done" /\ op[p] = "Upsert" /\ result[p] = ErrNone
        /\ state[p].Version = MaxVersion + 1
        /\ rows[state[p].ID].version = MaxVersion + 1

SeqUpsertOf(p, a, k, v) ==
    /\ pc[p] = "done" /\ op[p] = "Upsert"
    /\ state[p].AccountID = a /\ state[p].Key = k /\ expected[p] = v

C4_Sequence ==
    \A a \in Accounts, k \in Keys :
        /\ SeqUpsertOf(1, a, k, 0) =>
              result[1] = ErrNone /\ state[1].Version = 1
        /\ SeqUpsertOf(1, a, k, 0) /\ SeqUpsertOf(2, a, k, 1) =>
              result[2] = ErrNone /\ state[2].Version = 2 /\ state[2].ID = state[1].ID
        /\ SeqUpsertOf(1, a, k, 0) /\ SeqUpsertOf(2, a, k, 1) /\ SeqUpsertOf(3, a, k, 1) =>
              /\ result[3] = ErrVersionConflict
              /\ (\A c \in Calls : c > 3 => pc[c] = "ready") => rows[state[1].ID].version = 2

\* C4 witness: the three calls of the sequence have been made
C4_Witness ==
    \E a \in Accounts, k \in Keys :
        /\ DOMAIN pc = Calls
        /\ SeqUpsertOf(1, a, k, 0) /\ SeqUpsertOf(2, a, k, 1) /\ SeqUpsertOf(3, a, k, 1)
        /\ result[3] = ErrVersionConflict

\* C5: the table never holds two rows with the same (account, key)
C5_OneRowPerKey ==
    \A a \in Accounts, k \in Keys : Cardinality(KeyIds(rows, a, k)) <= 1

\* C5 witness: two Upserts both saw NotFound for the same key and both ran the INSERT
C5_Witness ==
    \E p, q \in DOMAIN pc :
        /\ p # q
        /\ pc[p] = "done" /\ op[p] = "Upsert" /\ target[p] = NilID
        /\ pc[q] = "done" /\ op[q] = "Upsert" /\ target[q] = NilID
        /\ state[p].AccountID = state[q].AccountID /\ state[p].Key = state[q].Key
        /\ result[p] = ErrNone /\ result[q] = ErrCreateUnique
        /\ Cardinality(KeyIds(rows, state[p].AccountID, state[p].Key)) = 1

\* C6: when two Upserts have both seen NotFound for the same never-deleted
\* (account, key) and both have returned, exactly one has inserted the row (nil,
\* version 1) and the other has returned nil (by the update path) or
\* ErrVersionConflict, no other error.
C6_InsertRaceLoserConflicts ==
    \A p, q \in Callers :
        ( /\ p # q
          /\ pc[p] = "done" /\ op[p] = "Upsert" /\ target[p] = NilID
          /\ pc[q] = "done" /\ op[q] = "Upsert" /\ target[q] = NilID
          /\ state[p].AccountID = state[q].AccountID /\ state[p].Key = state[q].Key
          /\ \A i \in KeyIds(rows, state[p].AccountID, state[p].Key) :
                rows[i].deleted_at = NULL )
        => /\ result[p] \in {ErrNone, ErrVersionConflict}
           /\ result[q] \in {ErrNone, ErrVersionConflict}
           /\ Cardinality(KeyIds(rows, state[p].AccountID, state[p].Key)) = 1

\* C7: when the INSERT of an Upsert runs and no row has ever existed for the
\* candidate's (account, key), whatever version the candidate carries, the
\* Upsert returns nil, the table gains exactly one row, with a fresh id, the
\* candidate's account, key, device, blob and nonce and version 1, GetByKey
\* finds it, and the candidate holds that id and version 1.
C7_CreateIgnoresExpected ==
    [][ \A p \in Callers :
          ( /\ pc[p] = "create" /\ pc'[p] = "done"
            /\ KeyIds(rows, state[p].AccountID, state[p].Key) = {} )
          => /\ result'[p] = ErrNone
             /\ state'[p].ID # NilID
             /\ state'[p].ID \notin DOMAIN rows
             /\ DOMAIN rows' = DOMAIN rows \cup {state'[p].ID}
             /\ \A i \in DOMAIN rows : rows'[i] = rows[i]
             /\ rows'[state'[p].ID].version = 1
             /\ rows'[state'[p].ID].account_id = state[p].AccountID
             /\ rows'[state'[p].ID].key = state[p].Key
             /\ rows'[state'[p].ID].device_id = state[p].DeviceID
             /\ rows'[state'[p].ID].state = state[p].State
             /\ rows'[state'[p].ID].nonce = state[p].Nonce
             /\ GetByKey(rows', state[p].AccountID, state[p].Key) = state'[p].ID
             /\ state'[p].Version = 1 ]_vars

\* C7 witness: an Upsert that carried a positive expected version has created the row
C7_Witness ==
    \E p \in DOMAIN pc :
        /\ pc[p] = "done" /\ op[p] = "Upsert" /\ target[p] = NilID
        /\ expected[p] > 0
        /\ result[p] = ErrNone /\ state[p].Version = 1
        /\ rows[state[p].ID].version = 1

\* C8: (SpecSeq) after a Delete has soft-deleted the row of (account, key), the
\* next Upsert on that key returns nil with version 1, and GetByKey then
\* returns the new active row at version 1.
C8_UpsertAfterDelete ==
    \A d, u \in Calls :
        ( /\ d < u
          /\ pc[d] = "done" /\ op[d] = "Delete" /\ result[d] = ErrNone
          /\ pc[u] = "done" /\ op[u] = "Upsert"
          /\ rows[target[d]].account_id = state[u].AccountID
          /\ rows[target[d]].key = state[u].Key
          /\ \A c \in Calls : d < c /\ c < u => op[c] # "Upsert" \/ state[c].Key # state[u].Key )
        => /\ result[u] = ErrNone
           /\ state[u].Version = 1
           /\ (\A c \in Calls : c > u => pc[c] = "ready") =>
                 /\ GetByKey(rows, state[u].AccountID, state[u].Key) = state[u].ID
                 /\ rows[state[u].ID].version = 1

\* C9: when the conditional UPDATE of an Upsert runs against a row that has been
\* soft-deleted since the Upsert read it, also with the expected version equal
\* to the stored one, the Upsert returns ErrVersionConflict and the table is
\* unchanged.
C9_DeletedRowConflicts ==
    [][ \A p \in Callers :
          ( /\ pc[p] = "update" /\ pc'[p] = "done"
            /\ rows[target[p]].deleted_at # NULL )
          => /\ result'[p] = ErrVersionConflict
             /\ rows' = rows ]_vars

\* C9 witness: an Upsert whose expected version equals the stored version has
\* returned ErrVersionConflict because the row it had read is soft-deleted
C9_Witness ==
    \E p \in DOMAIN pc :
        /\ pc[p] = "done" /\ op[p] = "Upsert" /\ result[p] = ErrVersionConflict
        /\ target[p] \in DOMAIN rows
        /\ rows[target[p]].deleted_at # NULL
        /\ rows[target[p]].version = expected[p]
        /\ rows[target[p]].state # state[p].State

\* the row id is in no entry of the listing
NotListed(lst, id) == \A n \in DOMAIN lst : lst[n].id # id

\* C10: Delete(id) of an active row returns nil and sets only that row's
\* deleted_at; Delete(id) of an id without an active row returns ErrNotFound and
\* changes nothing; a soft-deleted row stays soft-deleted, and for every
\* soft-deleted row GetByID and GetByKey of its (account, key) return NotFound
\* and GetByAccountID does not list it.
C10_Delete ==
    [][ /\ \A p \in Callers :
              (pc[p] = "ready" /\ pc'[p] = "done" /\ op'[p] = "Delete") =>
                  IF target'[p] \in DOMAIN rows /\ rows[target'[p]].deleted_at = NULL
                  THEN /\ result'[p] = ErrNone
                       /\ DOMAIN rows' = DOMAIN rows
                       /\ rows'[target'[p]] = [rows[target'[p]] EXCEPT !.deleted_at = rows'[target'[p]].deleted_at]
                       /\ rows'[target'[p]].deleted_at # NULL
                       /\ \A j \in DOMAIN rows : j # target'[p] => rows'[j] = rows[j]
                  ELSE /\ result'[p] = ErrNotFound
                       /\ rows' = rows
        /\ \A i \in DOMAIN rows : rows[i].deleted_at # NULL =>
              /\ i \in DOMAIN rows'
              /\ rows'[i].deleted_at # NULL
        /\ \A i \in DOMAIN rows' : rows'[i].deleted_at # NULL =>
              /\ GetByID(rows', i) = NilID
              /\ GetByKey(rows', rows'[i].account_id, rows'[i].key) = NilID
              /\ NotListed(GetByAccountID(rows', rows'[i].account_id), i)
      ]_vars

\* C10 witness: one Delete of an id has returned nil and a second Delete of the
\* same id has returned ErrNotFound
C10_Witness ==
    \E p, q \in DOMAIN pc :
        /\ pc[p] = "done" /\ op[p] = "Delete" /\ result[p] = ErrNone
        /\ pc[q] = "done" /\ op[q] = "Delete" /\ result[q] = ErrNotFound
        /\ target[p] = target[q]
        /\ rows[target[p]].deleted_at # NULL
        /\ GetByKey(rows, rows[target[p]].account_id, rows[target[p]].key) = NilID

\* C11: (Spec) in the step in which an Upsert returns nil, and so before any
\* other write, the candidate carries the id and the version of a stored row;
\* an update carries the id of the row that was there before the call; and
\* GetByKey of the candidate's account and key finds that row, holding the
\* device, blob and nonce of the candidate at the candidate's version.
C11_UpsertResultIsStoredRow ==
    [][\A p \in Callers :
         UpsertSucceeds(p) =>
           LET s == state'[p]
               found == GetByKey(rows', s.AccountID, s.Key)
           IN /\ s.ID \in DOMAIN rows'
              /\ rows'[s.ID].version = s.Version
              /\ (pc[p] = "update" => s.ID = target[p] /\ s.ID \in DOMAIN rows)
              /\ (pc[p] = "create" => s.ID \notin DOMAIN rows)
              /\ found = s.ID
              /\ rows'[found].device_id = s.DeviceID
              /\ rows'[found].state = s.State
              /\ rows'[found].nonce = s.Nonce
              /\ rows'[found].account_id = s.AccountID
              /\ rows'[found].key = s.Key]_vars

\* an update has returned nil with a payload that differs from the one the
\* row was created with, and the row has not been written since
C11_Witness ==
    \E p \in Callers :
        /\ pc[p] = "done" /\ op[p] = "Upsert" /\ result[p] = ErrNone
        /\ state[p].Version = 2
        /\ state[p].Nonce = "n2"
        /\ state[p].ID \in DOMAIN rows
        /\ rows[state[p].ID].version = 2
        /\ rows[state[p].ID].nonce = "n2"
        /\ GetByKey(rows, state[p].AccountID, state[p].Key) = state[p].ID

\* C12: (SpecAccount) what GetByAccountID(a) returns is exactly the rows of
\* account a that are not soft-deleted: each of them once, no soft-deleted
\* row, no row of the other account; and the keys ascend along the result.
C12_GetByAccountExactAscending ==
    listing # NoListing =>
      LET lst == listing.states
          a == listing.account
          want == {i \in DOMAIN rows : rows[i].account_id = a /\ rows[i].deleted_at = NULL}
      IN /\ {lst[n] : n \in DOMAIN lst} = {rows[i] : i \in want}
         /\ Len(lst) = Cardinality(want)
         /\ \A n \in DOMAIN lst : lst[n].account_id = a /\ lst[n].deleted_at = NULL
         /\ \A n \in DOMAIN lst, k \in DOMAIN lst :
              n < k => KeyRank(lst[n].key) < KeyRank(lst[k].key)

\* the account's two active rows were inserted in descending key order, the
\* table also holds a row of the other account, and both rows are returned
C12_Witness ==
    /\ Len(listing.states) = 2
    /\ Len(rows) = 3
    /\ \E i \in DOMAIN rows : rows[i].account_id # listing.account
    /\ \E i \in DOMAIN rows, j \in DOMAIN rows :
         /\ i < j
         /\ rows[i].account_id = listing.account /\ rows[j].account_id = listing.account
         /\ KeyRank(rows[i].key) > KeyRank(rows[j].key)

\* a step in which client c's call of the method returns
SessionCallReturns(c, method) ==
    /\ call[c].pc # "done"
    /\ call'[c].pc = "done"
    /\ call'[c].op = method

\* C13: (SpecSession) in the step in which ListByAccountID returns, GetByID
\* finds the primary record of every session of the returned list, whatever
\* Delete, DeleteAllForAccount and expiry did while the call ran.
C13_ListedSessionsAreFetchable ==
    [][\A c \in Listers :
         SessionCallReturns(c, "ListByAccountID") =>
           \A s \in call'[c].sessions :
             SessionGetByID(sessionKeys', s.ID) = ErrNone]_vars

\* C14: (SpecSession) in every state, between the commands of Create and of
\* Delete too, the id of every session GetByID can fetch is a member of the
\* set of the account that owns the session.
C14_LiveSessionIsIndexed ==
    \A id \in SessionIDs :
        SessionGetByID(sessionKeys, id) = ErrNone =>
          id \in accountSessions[sessionKeys[id].session.AccountID]

C16_StaleIdEventuallyRemoved ==
    /\ \A a \in Owners, id \in SessionIDs :
          (id \in accountSessions[a] /\ ~KeyExists(sessionKeys, id))
            ~> (id \notin accountSessions[a])
    /\ [][\A a \in Owners, id \in SessionIDs :
            (id \notin accountSessions[a] /\ id \in accountSessions'[a]) =>
              \E c \in Clients :
                /\ call[c].pc = "sadd"
                /\ call[c].session.ID = id /\ call[c].session.AccountID = a
                /\ SessionCallReturns(c, "Create")]_vars

\* a lister's call has returned after it removed from the set of its account
\* the ids that had lost their key before the call
C16_Witness ==
    \E c \in Listers :
        /\ call[c].pc = "done"
        /\ call[c].stale # {}
        /\ \A id \in call[c].stale :
             /\ id \notin accountSessions[ListerAccounts[c]]
             /\ ~KeyExists(sessionKeys, id)

\* what ListByAccountID(a) returns when no other command runs during the call
ListAtOnce(keys, sets, a) == {keys[id].session : id \in {x \in sets[a] : KeyExists(keys, x)}}

\* C17: (SpecSession) in the step in which Delete(id) returns nil, having
\* fetched the session before its expiry: GetByID(id) answers ErrNotFound, the
\* set of the session's account does not hold id, and a ListByAccountID of
\* that account does not return the session.
C17_DeleteRemovesSession ==
    [][\A c \in Clients :
         (SessionCallReturns(c, "Delete") /\ call'[c].err = ErrNone) =>
           /\ SessionGetByID(sessionKeys', call'[c].id) = ErrNotFound
           /\ call'[c].account = call[c].session.AccountID
           /\ call'[c].id \notin accountSessions'[call'[c].account]
           /\ \A s \in ListAtOnce(sessionKeys', accountSessions', call'[c].account) :
                s.ID # call'[c].id]_vars

\* a Delete has returned nil, its session is gone from the keys and from the
\* set of its account, and the account's other session is still there
C17_Witness ==
    \E c \in Clients :
        /\ call[c].pc = "done" /\ call[c].op = "Delete" /\ call[c].err = ErrNone
        /\ ~KeyExists(sessionKeys, call[c].id)
        /\ call[c].id \notin accountSessions[call[c].account]
        /\ ListAtOnce(sessionKeys, accountSessions, call[c].account) # {}

\* C18: (SpecSession) a Delete(id) that finds the primary key gone while id is
\* a member of an account's set returns nil and leaves no set holding id.
C18_DeleteOfExpiredCleansIndex ==
    [][\A c \in Clients :
         ( /\ SessionCallReturns(c, "Delete")
           /\ call[c].pc = "ready"
           /\ ~KeyExists(sessionKeys, call'[c].id)
           /\ \E a \in Owners : call'[c].id \in accountSessions[a] ) =>
           /\ call'[c].err = ErrNone
           /\ \A a \in Owners : call'[c].id \notin accountSessions'[a]]_vars

\* C19: (SpecSession) in the step in which DeleteAllForAccount(a) returns, no
\* Create for account a having run during the call, a ListByAccountID(a)
\* returns nothing, also when members of the set had expired before the call
\* or expired while it ran.
C19_DeleteAllLeavesListEmpty ==
    [][\A c \in Listers :
         ( /\ SessionCallReturns(c, "DeleteAllForAccount")
           /\ call'[c].account \notin call'[c].creates ) =>
           ListAtOnce(sessionKeys', accountSessions', call'[c].account) = {}]_vars

\* a DeleteAllForAccount has returned with no Create beside it: it deleted a
\* session, the Delete of another member failed because that session had
\* expired, the expired id is still in the set, and a list returns nothing
C19_Witness ==
    \E c \in Listers :
        /\ call[c].pc = "done" /\ call[c].op = "DeleteAllForAccount"
        /\ call[c].creates = {}
        /\ call[c].sessions # {}
        /\ call[c].expired # {}
        /\ call[c].expired \subseteq accountSessions[call[c].account]
        /\ ListAtOnce(sessionKeys, accountSessions, call[c].account) = {}

\* C20: (SpecSession) in the step in which DeleteAllForAccount(a) returns, no
\* Create having run during the call, GetByID fetches no session of account a.
C20_DeleteAllLeavesNoSession ==
    [][\A c \in Listers :
         ( /\ SessionCallReturns(c, "DeleteAllForAccount")
           /\ call'[c].creates = {} ) =>
           \A id \in SessionIDs :
             SessionGetByID(sessionKeys', id) = ErrNone =>
               sessionKeys'[id].session.AccountID # call'[c].account]_vars

\* C21: (SpecSessionFail) when DeleteAllForAccount returns after its SMembers
\* was answered, every id of the snapshot has been passed to Delete: each is
\* either the id of a session it deleted or an id whose Delete failed (the
\* session gone, or a command of the store failing); no failure ends the loop.
C21_FailureDoesNotStopLoop ==
    [][\A c \in Listers :
         ( /\ SessionCallReturns(c, "DeleteAllForAccount")
           /\ call'[c].err = ErrNone ) =>
           call'[c].snapshot =
             {s.ID : s \in call'[c].sessions} \cup call'[c].expired]_vars

\* a DeleteAllForAccount has returned whose snapshot had two ids: the Delete
\* of one failed while its session was still there (a command of the store
\* failed), and the other id was deleted all the same
C21_Witness ==
    \E c \in Listers :
        /\ call[c].pc = "done" /\ call[c].op = "DeleteAllForAccount"
        /\ Cardinality(call[c].snapshot) = 2
        /\ \E id \in call[c].expired : KeyExists(sessionKeys, id)
        /\ \E s \in call[c].sessions : s.ID \notin call[c].expired

\* C22: (SpecSessionFail) a DeleteAllForAccount that has returned after the
\* Delete of a member failed holds an error, not nil.
C22_DeleteAllReportsFailures ==
    \A c \in Listers :
        ( /\ call[c].pc = "done" /\ call[c].op = "DeleteAllForAccount"
          /\ call[c].expired # {} ) => call[c].err # ErrNone

\* C23: (SpecSession) a Create given an expiry time that is not after the
\* current time (no time left to live) leaves no session that GetByID
\* fetches: right after its Set, GetByID of the id answers ErrNotFound.
C23_ExpiredCreateIsNotFetchable ==
    [][\A c \in Clients, id \in SessionIDs, a \in Owners, d \in Devices,
          life \in Lifetimes :
         (life <= 0 /\ CreateSetOn(c, id, a, d, life)) =>
           SessionGetByID(sessionKeys', id) = ErrNotFound]_vars

\* C24: (SpecSession) after every step GetByID(id) fetches a session exactly
\* when the step is the Set of a Create for id whose expiry time is still
\* ahead, with the account and the device given to that Create, or when
\* GetByID fetched it before the step, unchanged, and the step is neither the
\* Del of a Delete of id nor the passing of its expiry time; otherwise GetByID
\* answers ErrNotFound.
C24_GetByIDExactlyWhenLive ==
    [][\A id \in SessionIDs :
         SessionGetByID(sessionKeys', id) = ErrNone <=>
           \/ \E c \in Clients, a \in Owners, d \in Devices, life \in Lifetimes :
                 /\ life > 0
                 /\ CreateSetOn(c, id, a, d, life)
                 /\ sessionKeys'[id].session =
                      [ID |-> id, AccountID |-> a, DeviceID |-> d]
           \/ /\ SessionGetByID(sessionKeys, id) = ErrNone
              /\ sessionKeys'[id].session = sessionKeys[id].session
              /\ ~ \E c \in Clients : DeleteDel(c) /\ call[c].id = id
              /\ ~ (Tick /\ sessionKeys[id].ttl = 1)]_vars

\* C25: (SpecAuth) in the step in which the Delete of a Logout returns nil,
\* the session of the token deleted, VerifyToken rejects that token, although
\* the time of its exp claim is still ahead.
C25_LoggedOutTokenIsRejected ==
    [][\A c \in Clients :
         ( /\ SessionCallReturns(c, "Delete")
           /\ call'[c].err = ErrNone
           /\ tokens'[call'[c].id].left > 0 ) =>
           VerifyToken(tokens'[call'[c].id]) = ErrInvalidToken]_vars

C27_DeletePresenceForcesOffline ==
    [][\A d \in PresenceDevices :
         /\ DeletePresenceOn(d) =>
               /\ reply'.err = ErrNone
               /\ GetPresence(presence', d) =
                    [err |-> ErrNone, presence |-> Offline(d)]
               /\ ~PresenceExists(presence, d) => presence' = presence
         /\ ( /\ GetPresence(presence, d).presence.Status = StatusOffline
              /\ GetPresence(presence', d).presence.Status # StatusOffline ) =>
               \E a \in Accounts, st \in Statuses : SetPresenceOn(a, d, st)]_vars

\* a DeletePresence has returned for a device whose key had its whole time to
\* live left, and the device is offline
C27_Witness ==
    /\ reply.op = "DeletePresence"
    /\ reply.err = ErrNone
    /\ reply.before.value.kind = "json"
    /\ reply.before.ttl = presenceTTL
    /\ GetPresence(presence, reply.ids[1]).presence = Offline(reply.ids[1])

\* C28: (SpecBulk) the map a GetBulkPresence returns with a nil error has
\* exactly the ids of the list it was given as its keys, whatever the list
\* (empty, ids repeated) and whatever the keys of the ids hold.
C28_BulkKeysAreTheRequestedIds ==
    (reply.op = "GetBulkPresence" /\ reply.err = ErrNone) =>
        DOMAIN reply.presences = {reply.ids[i] : i \in DOMAIN reply.ids}

\* a GetBulkPresence has returned for a list with a repeated id whose key
\* holds a string that is not JSON, and an id whose key holds a presence
C28_Witness ==
    /\ reply.op = "GetBulkPresence"
    /\ reply.err = ErrNone
    /\ \E i, j, k \in DOMAIN reply.ids :
         /\ i # j /\ reply.ids[i] = reply.ids[j]
         /\ presence[reply.ids[i]].value = NotJSON
         /\ presence[reply.ids[k]].value.kind = "json"

C31_StoredStatusIsOnline ==
    \A d \in PresenceDevices :
        /\ PresenceExists(presence, d) =>
              presence[d].value.presence.Status = "online"
        /\ GetPresence(presence, d).presence.Status # "online" =>
              /\ ~PresenceExists(presence, d)
              /\ GetPresence(presence, d).presence = Offline(d)

\* no call of the session repository is in progress
Quiet(frames) == \A c \in Clients : frames[c].pc \in {"ready", "done"}

\* C32: (SpecSession) the cleanup of a ListByAccountID running beside Create
\* and Delete takes out of the set of its account only ids that the call
\* itself found without a primary record, ids that have no record then, and
\* touches no other set; and whenever no call is in progress, every session
\* GetByID fetches is in the set of its account and in what a
\* ListByAccountID of that account returns.
C32_CleanupRemovesOnlyDeadIds ==
    [][/\ \A c \in Listers :
            ListSRem(c) =>
              /\ \A a \in Owners \ {call[c].account} :
                    accountSessions'[a] = accountSessions[a]
              /\ \A id \in accountSessions[call[c].account]
                            \ accountSessions'[call[c].account] :
                    /\ id \in call[c].expired
                    /\ SessionGetByID(sessionKeys, id) = ErrNotFound
       /\ Quiet(call') =>
            \A id \in SessionIDs :
              SessionGetByID(sessionKeys', id) = ErrNone =>
                /\ id \in accountSessions'[sessionKeys'[id].session.AccountID]
                /\ sessionKeys'[id].session \in
                     ListAtOnce(sessionKeys', accountSessions',
                                sessionKeys'[id].session.AccountID)]_vars

\* no call is in progress; a ListByAccountID has returned, the dead ids that
\* were in the set when it started are out of the set, and another session of
\* the account, which it did not return, is live and in the set
C32_Witness ==
    /\ Quiet(call)
    /\ \E c \in Listers :
         /\ call[c].pc = "done" /\ call[c].op = "ListByAccountID"
         /\ call[c].stale # {}
         /\ call[c].stale \cap accountSessions[call[c].account] = {}
         /\ \E id \in accountSessions[call[c].account] :
              /\ KeyExists(sessionKeys, id)
              /\ sessionKeys[id].session \notin call[c].sessions

\* C33: (SpecStoreFail) a ListByAccountID in which a command of the store has
\* failed returns an error: so when its SMembers fails, when its SRem fails,
\* and when the Get of a member has failed.
C33_ListReportsStoreFailure ==
    [][\A c \in Listers :
         /\ (ListSMembersFails(c) \/ ListSRemFails(c)) =>
               (call'[c].pc = "done" /\ call'[c].err # ErrNone)
         /\ ( /\ SessionCallReturns(c, "ListByAccountID")
              /\ call'[c].failed # {} ) => call'[c].err # ErrNone]_vars

\* C34: (SpecStoreFail) the Del of a Delete finds the id already out of the
\* set of the owning account and leaves it out; a Delete that ends between
\* its SRem and its Del (the Del failing) deletes nothing, so that GetByID
\* still fetches a session it fetched before, while the id is not in the set
\* and a list does not return it; and a Delete that returns nil, a retried one
\* among them, leaves neither the record nor the id in the set.
C34_DeleteUnindexesBeforeItDeletes ==
    [][\A c \in Listers :
         LET id == call[c].id
             owner == call[c].session.AccountID
         IN /\ DeleteDel(c) =>
                 /\ id \notin accountSessions[owner]
                 /\ id \notin accountSessions'[owner]
            /\ DeleteDelFails(c) =>
                 /\ call'[c].err = ErrDeleteSession
                 /\ sessionKeys'[id] = sessionKeys[id]
                 /\ id \notin accountSessions'[owner]
                 /\ call[c].session \notin
                      ListAtOnce(sessionKeys', accountSessions', owner)
            /\ ( /\ SessionCallReturns(c, "Delete")
                 /\ call'[c].err = ErrNone ) =>
                 /\ SessionGetByID(sessionKeys', id) = ErrNotFound
                 /\ id \notin accountSessions'[owner]]_vars

\* a Delete has ended with the error of its Del, its id out of the set; the
\* session is still fetched, and another Delete of the id is on its way
C34_Witness ==
    \E c, r \in Listers :
        /\ call[c].pc = "done" /\ call[c].op = "Delete"
        /\ call[c].err = ErrDeleteSession
        /\ SessionGetByID(sessionKeys, call[c].id) = ErrNone
        /\ call[c].id \notin accountSessions[call[c].account]
        /\ call[r].op = "Delete" /\ call[r].pc = "del"
        /\ call[r].id = call[c].id

\* C35: (Spec) an Upsert called with expected version 0 whose SELECT found an
\* active row of the key returns ErrVersionConflict from its UPDATE and the
\* table is as it was; every stored version is at least 1; and an Upsert with
\* expected version 0 that returns nil has inserted the first row of its key.
C35_ExpectedZeroOnlyInserts ==
    [][\A p \in Callers :
         /\ (UpsertUpdate(p) /\ expected[p] = 0) =>
               /\ result'[p] = ErrVersionConflict
               /\ rows' = rows
         /\ (UpsertSucceeds(p) /\ expected[p] = 0) =>
               /\ UpsertCreate(p)
               /\ KeyIds(rows, state[p].AccountID, state[p].Key) = {}
               /\ Len(rows') = Len(rows) + 1
         /\ \A i \in DOMAIN rows' : rows'[i].version >= 1]_vars

\* an Upsert with expected version 0 has returned ErrVersionConflict for a key
\* whose active row, found by its SELECT, is still there
C35_Witness ==
    \E p \in Callers :
        /\ pc[p] = "done" /\ op[p] = "Upsert"
        /\ expected[p] = 0
        /\ result[p] = ErrVersionConflict
        /\ target[p] \in DOMAIN rows
        /\ rows[target[p]].deleted_at = NULL
        /\ rows[target[p]].key = state[p].Key

\* C36: (SpecReuse) whenever no call of the session repository is in
\* progress, every session GetByID fetches has its id in the set of its
\* account.
C36_QuietStoreIndexesLiveSessions ==
    Quiet(call) =>
        \A id \in SessionIDs :
            SessionGetByID(sessionKeys, id) = ErrNone =>
                id \in accountSessions[sessionKeys[id].session.AccountID]

\* C37: (SpecReuse) every session a ListByAccountID(a) has returned belongs
\* to account a.
C37_ListReturnsOnlyOwnSessions ==
    \A c \in Listers :
        (call[c].pc = "done" /\ call[c].op = "ListByAccountID") =>
            \A s \in call[c].sessions : s.AccountID = call[c].account

\* C38: (Spec) no step changes a row that is soft-deleted; and a Delete of
\* an active row, whatever its version, returns nil and changes nothing but
\* the deleted_at of that row.
C38_DeletedRowIsFrozen ==
    [][/\ \A i \in DOMAIN rows :
            rows[i].deleted_at # NULL =>
                (i \in DOMAIN rows' /\ rows'[i] = rows[i])
       /\ \A p \in Callers, id \in Ids :
            (DeleteOn(p, id) /\ GetByID(rows, id) # NilID) =>
                /\ result'[p] = ErrNone
                /\ rows' = [rows EXCEPT ![id].deleted_at = NOW]]_vars

\* a row was deleted at a version above 1, and an Upsert whose SELECT had
\* found it active has since run its UPDATE on it and got ErrVersionConflict
C38_Witness ==
    \E i \in DOMAIN rows, p \in Callers :
        /\ rows[i].deleted_at # NULL
        /\ rows[i].version > 1
        /\ pc[p] = "done" /\ op[p] = "Upsert"
        /\ target[p] = i
        /\ expected[p] = rows[i].version
        /\ result[p] = ErrVersionConflict

\* the table with every row of another (account, key) than (a, k) changed:
\* another version, and deleted if it was active, active if it was deleted
OtherKeysChanged(tbl, a, k) ==
    [i \in DOMAIN tbl |->
        IF tbl[i].account_id = a /\ tbl[i].key = k THEN tbl[i]
        ELSE [tbl[i] EXCEPT !.version = @ + 1,
                            !.deleted_at = IF @ = NULL THEN NOW ELSE NULL]]

\* C39: (Spec) a statement of an Upsert on (account, key) leaves every row of
\* another (account, key) as it was and inserts a row of its own key only; a
\* Delete changes no row but its target; and what the SELECT of an Upsert
\* finds and whether its INSERT or UPDATE succeeds is the same when the rows
\* of the other keys are different, so that writes and conflicts on another
\* key do not change the outcome.
C39_OtherKeysUntouched ==
    [][\A p \in Callers :
         LET a == state[p].AccountID
             k == state[p].Key
             other == OtherKeysChanged(rows, a, k)
         IN /\ (pc[p] \in {"create", "update"} /\ pc'[p] = "done") =>
                 /\ \A i \in DOMAIN rows :
                       (rows[i].account_id # a \/ rows[i].key # k) =>
                           rows'[i] = rows[i]
                 /\ \A i \in DOMAIN rows' \ DOMAIN rows :
                       rows'[i].account_id = a /\ rows'[i].key = k
                 /\ result'[p] = ErrNone <=>
                       IF pc[p] = "create" THEN InsertAllowed(other, state[p])
                       ELSE UpdateMatches(other, state[p], target[p])
            /\ (pc[p] = "ready" /\ pc'[p] = "done" /\ op'[p] = "Delete") =>
                 /\ DOMAIN rows' = DOMAIN rows
                 /\ \A i \in DOMAIN rows \ {target'[p]} : rows'[i] = rows[i]
            /\ (pc[p] = "ready" /\ pc'[p] \in {"create", "update"}) =>
                 /\ rows' = rows
                 /\ target'[p] =
                       GetByKey(OtherKeysChanged(rows, state'[p].AccountID,
                                                 state'[p].Key),
                                state'[p].AccountID, state'[p].Key)]_vars

\* two callers hold the results of Upserts on different keys: one was told
\* of a version conflict on its key, the other updated the row of its key
C39_Witness ==
    \E p, q \in Callers :
        /\ pc[p] = "done" /\ op[p] = "Upsert"
        /\ pc[q] = "done" /\ op[q] = "Upsert"
        /\ state[p].Key # state[q].Key
        /\ result[p] = ErrVersionConflict
        /\ result[q] = ErrNone
        /\ state[q].Version > 1
        /\ \E i \in DOMAIN rows : rows[i].key = state[p].Key

\* C40: (SpecReads) a step in which a GetByID or a ListByAccountID of a client
\* advances leaves every session key as it was, value and time to live, and
\* every presence key; it leaves the sets of the accounts as they were, but
\* for the last step of a ListByAccountID, which takes ids out of the set of
\* the listed account only.  A step in which GetPresence or GetBulkPresence
\* answers leaves every presence key, session key and set as it was.
C40_ReadsLeaveRecords ==
    [][/\ \A c \in ReuseListers :
            (call'[c] # call[c] /\ call'[c].op \in {"GetByID", "ListByAccountID"}) =>
                /\ sessionKeys' = sessionKeys
                /\ presence' = presence
                /\ \A a \in Owners :
                      \/ accountSessions'[a] = accountSessions[a]
                      \/ /\ call[c].pc = "cleanup"
                         /\ a = call[c].account
                         /\ accountSessions'[a] \subseteq accountSessions[a]
       /\ (reply' # reply /\ reply'.op \in {"GetPresence", "GetBulkPresence"}) =>
            /\ presence' = presence
            /\ sessionKeys' = sessionKeys
            /\ accountSessions' = accountSessions]_vars

\* a ListByAccountID has returned a session and taken a dead id out of the
\* set while the session it returned still runs towards its expiry, and a
\* bulk lookup has answered with a presence whose key is about to expire
C40_Witness ==
    \E c \in ReuseListers :
        /\ call[c].pc = "done" /\ call[c].op = "ListByAccountID"
        /\ call[c].stale # {}
        /\ \E x \in call[c].sessions :
              /\ KeyExists(sessionKeys, x.ID)
              /\ sessionKeys[x.ID].ttl = 1
        /\ reply.op = "GetBulkPresence"
        /\ PresenceExists(presence, "d1")
        /\ presence["d1"].ttl = 1
        /\ reply.presences["d1"].Status = "online"

====
